---- MODULE Spec2Model ----
(***************************************************************************)
(* The narrow phase of the collision pipeline (DefaultNarrowPhase):        *)
(* two hash maps keyed by sorted pairs of collision-object handles, one    *)
(* holding contact algorithms and one holding proximity algorithms, and    *)
(* the three operations that the collision world drives on them:           *)
(* handle_interaction, handle_removal and update.                          *)
(*                                                                         *)
(* A contact algorithm is represented by what the narrow phase reads of    *)
(* it, num_contacts(); a proximity algorithm by proximity().  What an      *)
(* algorithm computes in its own update() is an input of the step.         *)
(* A std HashMap is iterated in an order that depends on the process's     *)
(* random hasher keys: update draws the visiting order of each map.        *)
(***************************************************************************)
EXTENDS Integers, Sequences, FiniteSets, TLC

\* ------------------------------------------------------------- bounds
MaxContacts == 1
MaxTimestamp == 1
MaxEvents == 2
MaxMoves == 1

VARIABLES
    objects,                 \* the CollisionObjectSlab handed to every call: each
                             \* object's query type and shape
    contact_generators,      \* HashMap<SortedPair, ContactAlgorithm>
    proximity_detectors,     \* HashMap<SortedPair, ProximityAlgorithm>
    contact_events,          \* ContactEvents, in insertion order
    proximity_events,        \* ProximityEvents, in insertion order
    panicked,                \* a panic! or a failed slab index aborted the program
    replay_contact_events,   \* ContactEvents of a second run fed the same calls
    replay_proximity_events, \* ProximityEvents of that second run
    erased_active,           \* per pair: where in contact_events a handle_removal
                             \* erased an entry reporting at least one contact
    dropped,                 \* the pairs a dispatcher returned no algorithm for
    projection,              \* the point-projection query made of a tetrahedron,
                             \* and what the two versions of it returned
    proxies,                 \* the broad phase's proxy table and the loose
                             \* bounding volumes of its tree
    pending,                 \* the broad phase's pending Create and Move
    current,                 \* the broad phase's current overlap set
    reports,                 \* the callbacks the last broad-phase call invoked
    filters,                 \* the filters the broad-phase updates were given
    positions,               \* the position of each object of the world
    stamped,                 \* the objects whose timestamp is the world's: those
                             \* added or moved since the last update of the world
    trip                     \* the calls made of the world since the last
                             \* set_position or remove that began a sequence

vars == <<objects, contact_generators, proximity_detectors, contact_events,
          proximity_events, panicked, replay_contact_events,
          replay_proximity_events, erased_active, dropped, projection,
          proxies, pending, current, reports, filters, positions, stamped, trip>>

narrow_vars == <<objects, contact_generators, proximity_detectors, contact_events,
                 proximity_events, panicked, replay_contact_events,
                 replay_proximity_events, erased_active, dropped>>

broad_vars == <<proxies, pending, current, reports, filters>>

world_vars == <<positions, stamped, trip>>

\* What the narrow phase leaves alone.
rest_vars == <<projection, broad_vars, world_vars>>

\* No point has been projected.
NoProjection == [stage |-> "idle"]

\* Lengths of the world are in tenths. The three objects are added at
\* (1, 0), (1, 1) and (1, 2).
AddedPosition(h) == <<10, 10 * (h - 1), 0>>

\* No sequence of calls of the world is being followed.
NoTrip == [op |-> "none", h |-> 0, stage |-> 0]

\* The ids of the proxy table, and a free slot of it.
ProxyIds == 0..3
NoProxy == [status |-> "free"]

\* ------------------------------------------------------------- data
\* The three objects of the test issue_57_object_remove.
Handles == {1, 2, 3}

\* SortedPair::new orders the two handles.
SortedPair(a, b) == IF a > b THEN <<b, a>> ELSE <<a, b>>

Pairs == {SortedPair(a, b) : a \in Handles, b \in Handles} \ {<<h, h>> : h \in Handles}

\* GeometricQueryType, its numeric payloads left out.
Contacts == "Contacts"
Proximity == "Proximity"
QueryTypes == {Contacts, Proximity}

\* geometry::query::Proximity
Intersecting == "Intersecting"
WithinMargin == "WithinMargin"
Disjoint == "Disjoint"
ProximityStates == {Intersecting, WithinMargin, Disjoint}

\* Option
None == <<>>
Some(x) == <<x>>

\* A slot of the slab that holds no object.
NoObject == [query_type |-> "none", shape |-> "none"]

\* The slab as a call sees it: every object with its modification timestamp.
Slab(objs, stamps) ==
    [h \in DOMAIN objs |->
        IF objs[h] = NoObject
        THEN NoObject
        ELSE [query_type |-> objs[h].query_type, shape |-> objs[h].shape,
              timestamp |-> stamps[h]]]

ShapeTags == <<"ball", "plane", "mesh">>
ShapeOfHandle(h) == ShapeTags[((h - 1) % Len(ShapeTags)) + 1]

\* ContactEvent::Started(h1, h2), ContactEvent::Stopped(h1, h2)
Started(h1, h2) == [type |-> "Started", h1 |-> h1, h2 |-> h2]
Stopped(h1, h2) == [type |-> "Stopped", h1 |-> h1, h2 |-> h2]
\* ProximityEvent::new(h1, h2, prev, new)
ProximityEvent(h1, h2, prev, new) == [h1 |-> h1, h2 |-> h2, prev |-> prev, new |-> new]

\* HashMap::insert into a vacant entry, HashMap::remove.
Insert(map, key, value) == (key :> value) @@ map
Remove(map, key) == [k \in (DOMAIN map) \ {key} |-> map[k]]

\* ------------------------------------------------------------- dispatchers
\* The two registries of shape-tag pairs that have a factory.
ContactRegistry == {<<"plane", "ball">>, <<"ball", "mesh">>}
ProximityRegistry == {<<"ball", "plane">>}

\* A fresh contact algorithm reports no contact.
get_contact_algorithm(s1, s2) ==
    IF <<s1, s2>> \in ContactRegistry \/ <<s2, s1>> \in ContactRegistry
    THEN Some(0) ELSE None

\* A fresh proximity algorithm reports Disjoint.
get_proximity_algorithm(s1, s2) ==
    IF <<s1, s2>> \in ProximityRegistry \/ <<s2, s1>> \in ProximityRegistry
    THEN Some(Disjoint) ELSE None

\* Some(prediction) for two Contacts query types, None otherwise.
contact_queries_to_prediction(q1, q2) ==
    IF q1 = Contacts /\ q2 = Contacts THEN Some("prediction") ELSE None

\* ------------------------------------------------------------- handle_interaction
\* A match whose first arm takes a pair with one Contacts endpoint.
ContactsArm_Either(q1, q2) == q1 = Contacts \/ q2 = Contacts

\* The first arm of the match on the two query types; the second arm takes
\* every other combination.
ContactsArm(q1, q2) == q1 = Contacts /\ q2 = Contacts

\* A handle_interaction that replaces the algorithm of a pair that has one.
InsertIfVacant_Overwrite(map, key, detector) ==
    IF detector # None THEN Insert(Remove(map, key), key, detector[1]) ELSE map

\* if let Entry::Vacant(entry) = map.entry(key) { if let Some(detector) = ... }
InsertIfVacant(map, key, detector) ==
    IF key \notin DOMAIN map /\ detector # None
    THEN Insert(map, key, detector[1])
    ELSE map

\* A handle_interaction that loses a pair without saying so.
ContactLost_Silent(detector, h1, h2) == <<>>

\* A handle_interaction that reports the loss of a pair that had no contact.
ContactLost_Unconditional(detector, h1, h2) == <<Stopped(h1, h2)>>

\* A handle_interaction that reports the loss of a pair that was disjoint.
ProximityLost_Unconditional(prev_prox, h1, h2) ==
    <<ProximityEvent(h1, h2, prev_prox, Disjoint)>>

\* "Register a collision lost event if there was a contact."
ContactLost(detector, h1, h2) ==
    IF detector # 0 THEN <<Stopped(h1, h2)>> ELSE <<>>

\* "Register a proximity lost signal if they were not disjoint."
ProximityLost(prev_prox, h1, h2) ==
    IF prev_prox # Disjoint
    THEN <<ProximityEvent(h1, h2, prev_prox, Disjoint)>>
    ELSE <<>>

\* What one call does to the two maps and the events it pushes.
HandleInteractionResult(cg, pd, objs, handle1, handle2, started) ==
    LET key == SortedPair(handle1, handle2)
        co1 == objs[handle1]
        co2 == objs[handle2]
        same == [cg |-> cg, pd |-> pd, cev |-> <<>>, pev |-> <<>>]
    IN  IF ContactsArm(co1.query_type, co2.query_type)
        THEN IF started
             THEN [same EXCEPT !.cg = InsertIfVacant(cg, key,
                                          get_contact_algorithm(co1.shape, co2.shape))]
             ELSE IF key \in DOMAIN cg
                  THEN [same EXCEPT !.cg = Remove(cg, key),
                                    !.cev = ContactLost(cg[key], handle1, handle2)]
                  ELSE same
        ELSE IF started
             THEN [same EXCEPT !.pd = InsertIfVacant(pd, key,
                                          get_proximity_algorithm(co1.shape, co2.shape))]
             ELSE IF key \in DOMAIN pd
                  THEN [same EXCEPT !.pd = Remove(pd, key),
                                    !.pev = ProximityLost(pd[key], handle1, handle2)]
                  ELSE same

\* Whether the call asks a dispatcher for an algorithm and gets none.
DispatcherMiss(cg, pd, objs, handle1, handle2) ==
    LET key == SortedPair(handle1, handle2)
        co1 == objs[handle1]
        co2 == objs[handle2]
    IN  IF ContactsArm(co1.query_type, co2.query_type)
        THEN key \notin DOMAIN cg /\ get_contact_algorithm(co1.shape, co2.shape) = None
        ELSE key \notin DOMAIN pd /\ get_proximity_algorithm(co1.shape, co2.shape) = None

\* ------------------------------------------------------------- handle_removal
\* A handle_removal that forgets the contact map.
HandleRemovalResult_KeepsContacts(cg, pd, handle1, handle2) ==
    LET key == SortedPair(handle1, handle2)
    IN  [cg |-> cg, pd |-> Remove(pd, key)]

HandleRemovalResult(cg, pd, handle1, handle2) ==
    LET key == SortedPair(handle1, handle2)
    IN  [cg |-> Remove(cg, key), pd |-> Remove(pd, key)]

\* ------------------------------------------------------------- update
\* The orders in which a HashMap holding the keys S may be iterated.
IterationOrders(S) ==
    {o \in [1..Cardinality(S) -> S] : \A i, j \in 1..Cardinality(S) : o[i] = o[j] => i = j}

\* The slab index &objects[key.0], &objects[key.1] fails on a slot with no object.
IndexFails(objs, key) == objs[key[1]] = NoObject \/ objs[key[2]] = NoObject

\* An update that recomputes every pair, whatever the timestamps.
StampedNow_Always(objs, key, timestamp) == TRUE

StampedNow(objs, key, timestamp) ==
    objs[key[1]].timestamp = timestamp \/ objs[key[2]].timestamp = timestamp

\* An update that starts a pair again each time it finds a contact.
ContactTransition_Restart(had_contacts, num_contacts, h1, h2) ==
    IF num_contacts = 0
    THEN IF had_contacts THEN <<Stopped(h1, h2)>> ELSE <<>>
    ELSE <<Started(h1, h2)>>

\* An update that stops a pair each time it finds no contact.
ContactTransition_StopsIdle(had_contacts, num_contacts, h1, h2) ==
    IF num_contacts = 0
    THEN <<Stopped(h1, h2)>>
    ELSE IF ~had_contacts THEN <<Started(h1, h2)>> ELSE <<>>

\* The contact events of one recomputed pair.
ContactTransition(had_contacts, num_contacts, h1, h2) ==
    IF num_contacts = 0
    THEN IF had_contacts THEN <<Stopped(h1, h2)>> ELSE <<>>
    ELSE IF ~had_contacts THEN <<Started(h1, h2)>> ELSE <<>>

\* An update that drops the entry of a pair whose last contact is gone.
UpdateContactEntry_DropsStopped(acc, key, objs, timestamp, new_count) ==
    IF IndexFails(objs, key)
    THEN [acc EXCEPT !.panic = TRUE]
    ELSE IF StampedNow(objs, key, timestamp)
         THEN LET had_contacts == acc.map[key] # 0
              IN  IF contact_queries_to_prediction(objs[key[1]].query_type,
                                                   objs[key[2]].query_type) # None
                  THEN [acc EXCEPT !.map = IF had_contacts /\ new_count = 0
                                           THEN Remove(acc.map, key)
                                           ELSE [acc.map EXCEPT ![key] = new_count],
                                   !.events = acc.events \o
                                       ContactTransition(had_contacts, new_count,
                                                         key[1], key[2])]
                  ELSE [acc EXCEPT !.panic = TRUE]
         ELSE acc

\* An update that reads had_contacts with the test inverted.
UpdateContactEntry_InvertedHad(acc, key, objs, timestamp, new_count) ==
    IF IndexFails(objs, key)
    THEN [acc EXCEPT !.panic = TRUE]
    ELSE IF StampedNow(objs, key, timestamp)
         THEN LET had_contacts == acc.map[key] = 0
              IN  IF contact_queries_to_prediction(objs[key[1]].query_type,
                                                   objs[key[2]].query_type) # None
                  THEN [acc EXCEPT !.map = [acc.map EXCEPT ![key] = new_count],
                                   !.events = acc.events \o
                                       ContactTransition(had_contacts, new_count,
                                                         key[1], key[2])]
                  ELSE [acc EXCEPT !.panic = TRUE]
         ELSE acc

\* The body of the first loop for one entry; acc is what the loop has done so far.
UpdateContactEntry(acc, key, objs, timestamp, new_count) ==
    IF IndexFails(objs, key)
    THEN [acc EXCEPT !.panic = TRUE]
    ELSE IF StampedNow(objs, key, timestamp)
         THEN LET had_contacts == acc.map[key] # 0
              IN  IF contact_queries_to_prediction(objs[key[1]].query_type,
                                                   objs[key[2]].query_type) # None
                  THEN [acc EXCEPT !.map = [acc.map EXCEPT ![key] = new_count],
                                   !.events = acc.events \o
                                       ContactTransition(had_contacts, new_count,
                                                         key[1], key[2])]
                  ELSE [acc EXCEPT !.panic = TRUE]
         ELSE acc

\* An update that reports the proximity of every pair it recomputes.
ProximityTransition_Always(prev_prox, new_prox, h1, h2) ==
    <<ProximityEvent(h1, h2, prev_prox, new_prox)>>

\* The proximity event of one recomputed pair.
ProximityTransition(prev_prox, new_prox, h1, h2) ==
    IF new_prox # prev_prox
    THEN <<ProximityEvent(h1, h2, prev_prox, new_prox)>>
    ELSE <<>>

\* The body of the second loop for one entry.
UpdateProximityEntry(acc, key, objs, timestamp, new_prox) ==
    IF IndexFails(objs, key)
    THEN [acc EXCEPT !.panic = TRUE]
    ELSE IF StampedNow(objs, key, timestamp)
         THEN LET prev_prox == acc.map[key]
              IN  [acc EXCEPT !.map = [acc.map EXCEPT ![key] = new_prox],
                              !.events = acc.events \o
                                  ProximityTransition(prev_prox, new_prox,
                                                      key[1], key[2])]
         ELSE acc

\* for (key, value) in self.contact_generators.iter_mut(), visited in `order`,
\* from entry i on; a panic ends the loop.
RECURSIVE UpdateContacts(_, _, _, _, _, _)
UpdateContacts(acc, order, i, objs, timestamp, counts) ==
    IF i > Len(order) \/ acc.panic
    THEN acc
    ELSE UpdateContacts(UpdateContactEntry(acc, order[i], objs, timestamp,
                                           counts[order[i]]),
                        order, i + 1, objs, timestamp, counts)

\* for (key, value) in self.proximity_detectors.iter_mut(), visited in `order`.
RECURSIVE UpdateProximities(_, _, _, _, _, _)
UpdateProximities(acc, order, i, objs, timestamp, proxs) ==
    IF i > Len(order) \/ acc.panic
    THEN acc
    ELSE UpdateProximities(UpdateProximityEntry(acc, order[i], objs, timestamp,
                                                proxs[order[i]]),
                           order, i + 1, objs, timestamp, proxs)

\* The whole of update: the contact loop, then the proximity loop unless the
\* first one panicked.
UpdateResult(cg, pd, objs, timestamp, corder, porder, counts, proxs) ==
    LET c == UpdateContacts([map |-> cg, events |-> <<>>, panic |-> FALSE],
                            corder, 1, objs, timestamp, counts)
        p == IF c.panic
             THEN [map |-> pd, events |-> <<>>, panic |-> TRUE]
             ELSE UpdateProximities([map |-> pd, events |-> <<>>, panic |-> FALSE],
                                    porder, 1, objs, timestamp, proxs)
    IN  [cg |-> c.map, pd |-> p.map, cev |-> c.events, pev |-> p.events,
         panic |-> p.panic]

\* The entries the loops recompute at `timestamp`.
Recomputed(map, objs, timestamp) ==
    {k \in DOMAIN map : ~IndexFails(objs, k) /\ StampedNow(objs, k, timestamp)}

\* What the algorithms' own update() may report: anything for a recomputed
\* entry (the geometry is an input), the stored value for the others.
AlgorithmInputs(map, objs, timestamp, values) ==
    {f \in [DOMAIN map -> values \cup {map[k] : k \in DOMAIN map}] :
        \A k \in DOMAIN map :
            IF k \in Recomputed(map, objs, timestamp)
            THEN f[k] \in values
            ELSE f[k] = map[k]}

\* ------------------------------------------------------------- the state machine
Object(qt, h) == [query_type |-> qt, shape |-> ShapeOfHandle(h)]

EmptyMap == [k \in {} |-> 0]

Init ==
    /\ \E qts \in [Handles -> QueryTypes] :
           objects = [h \in Handles |-> Object(qts[h], h)]
    /\ contact_generators = EmptyMap
    /\ proximity_detectors = EmptyMap
    /\ contact_events = <<>>
    /\ proximity_events = <<>>
    /\ replay_contact_events = <<>>
    /\ replay_proximity_events = <<>>
    /\ panicked = FALSE
    /\ erased_active = [p \in Pairs |-> <<>>]
    /\ dropped = {}
    /\ projection = NoProjection
    /\ proxies = [id \in ProxyIds |-> NoProxy]
    /\ pending = {}
    /\ current = {}
    /\ reports = <<>>
    /\ filters = {}
    /\ positions = [h \in Handles |-> AddedPosition(h)]
    /\ stamped = {}
    /\ trip = NoTrip

\* Both runs push the events of a call whose order of emission is fixed.
Push(cev, pev) ==
    /\ Len(contact_events) + Len(cev) + Len(proximity_events) + Len(pev) <= MaxEvents
    /\ contact_events' = contact_events \o cev
    /\ proximity_events' = proximity_events \o pev
    /\ replay_contact_events' = replay_contact_events \o cev
    /\ replay_proximity_events' = replay_proximity_events \o pev

\* NarrowPhase::handle_interaction(handle1, handle2, started); with `track`,
\* a dispatcher that returns no algorithm is recorded in `dropped`.
HandleInteractionStep(handle1, handle2, started, track) ==
    /\ ~panicked
    /\ UNCHANGED rest_vars
    /\ handle1 # handle2
    /\ IF objects[handle1] = NoObject \/ objects[handle2] = NoObject
       THEN /\ panicked' = TRUE
            /\ UNCHANGED <<objects, contact_generators, proximity_detectors,
                           contact_events, proximity_events, replay_contact_events,
                           replay_proximity_events, erased_active, dropped>>
       ELSE LET r == HandleInteractionResult(contact_generators, proximity_detectors,
                                             objects, handle1, handle2, started)
            IN  /\ contact_generators' = r.cg
                /\ proximity_detectors' = r.pd
                /\ Push(r.cev, r.pev)
                /\ dropped' = IF track /\ started
                                 /\ DispatcherMiss(contact_generators, proximity_detectors,
                                                   objects, handle1, handle2)
                              THEN dropped \cup {SortedPair(handle1, handle2)}
                              ELSE dropped
                /\ UNCHANGED <<objects, panicked, erased_active>>

HandleInteraction(handle1, handle2, started) ==
    HandleInteractionStep(handle1, handle2, started, FALSE)

\* NarrowPhase::handle_removal(handle1, handle2)
HandleRemoval(handle1, handle2) ==
    /\ ~panicked
    /\ UNCHANGED rest_vars
    /\ handle1 # handle2
    /\ LET key == SortedPair(handle1, handle2)
           r == HandleRemovalResult(contact_generators, proximity_detectors,
                                    handle1, handle2)
       IN  /\ contact_generators' = r.cg
           /\ proximity_detectors' = r.pd
           /\ erased_active' =
                  IF key \in DOMAIN contact_generators /\ contact_generators[key] # 0
                  THEN [erased_active EXCEPT ![key] = Append(@, Len(contact_events))]
                  ELSE erased_active
    /\ UNCHANGED <<objects, contact_events, proximity_events, replay_contact_events,
                   replay_proximity_events, panicked, dropped>>

\* The order in which the second run's map is iterated: one of its own when
\* the two runs are told apart, the first run's otherwise.
ReplayOrders(two_runs, S) == IF two_runs THEN IterationOrders(S) ELSE {<<>>}

\* What one call of update may do in the first run and in the second, which
\* is fed the same objects, timestamp and geometry and holds the same entries:
\* one outcome per iteration order of the maps and per report of the algorithms.
UpdateOutcomes(cg, pd, objs, timestamp, two_runs) ==
    {<<UpdateResult(cg, pd, objs, timestamp, corder, porder, counts, proxs),
       UpdateResult(cg, pd, objs, timestamp,
                    IF two_runs THEN rcorder ELSE corder,
                    IF two_runs THEN rporder ELSE porder, counts, proxs)>> :
        corder \in IterationOrders(DOMAIN cg),
        porder \in IterationOrders(DOMAIN pd),
        rcorder \in ReplayOrders(two_runs, DOMAIN cg),
        rporder \in ReplayOrders(two_runs, DOMAIN pd),
        counts \in AlgorithmInputs(cg, objs, timestamp, 0..MaxContacts),
        proxs \in AlgorithmInputs(pd, objs, timestamp, ProximityStates)}

\* NarrowPhase::update(objects, contact_events, proximity_events, timestamp);
\* stamps are the modification timestamps of the objects handed to the call.
UpdateStep(timestamp, stamps, two_runs) ==
    /\ ~panicked
    /\ UNCHANGED rest_vars
    /\ \E out \in UpdateOutcomes(contact_generators, proximity_detectors,
                                 Slab(objects, stamps), timestamp, two_runs) :
          LET r == out[1]
              rr == out[2]
          IN  /\ Len(contact_events) + Len(r.cev)
                    + Len(proximity_events) + Len(r.pev) <= MaxEvents
              /\ contact_generators' = r.cg
              /\ proximity_detectors' = r.pd
              /\ contact_events' = contact_events \o r.cev
              /\ proximity_events' = proximity_events \o r.pev
              /\ replay_contact_events' = replay_contact_events \o rr.cev
              /\ replay_proximity_events' = replay_proximity_events \o rr.pev
              /\ panicked' = r.panic
    /\ UNCHANGED <<objects, erased_active, dropped>>

Update(timestamp, stamps) == UpdateStep(timestamp, stamps, FALSE)

\* The caller changes an object's query type between two calls.
SetQueryType(h, qt) ==
    /\ ~panicked
    /\ UNCHANGED rest_vars
    /\ objects[h] # NoObject
    /\ objects[h].query_type # qt
    /\ objects' = [objects EXCEPT ![h].query_type = qt]
    /\ UNCHANGED <<contact_generators, proximity_detectors, contact_events,
                   proximity_events, replay_contact_events, replay_proximity_events,
                   panicked, erased_active, dropped>>

Timestamps == 0..MaxTimestamp

Next ==
    \/ \E h1, h2 \in Handles, started \in BOOLEAN : HandleInteraction(h1, h2, started)
    \/ \E h1, h2 \in Handles : HandleRemoval(h1, h2)
    \/ \E t \in Timestamps, stamps \in [Handles -> Timestamps] : Update(t, stamps)
    \/ \E h \in Handles, qt \in QueryTypes : SetQueryType(h, qt)

Spec == Init /\ [][Next]_vars

\* ------------------------------------------------------------- two runs
\* The same calls, the second run iterating its maps in an order of its own.
UpdateTwoRuns(timestamp, stamps) == UpdateStep(timestamp, stamps, TRUE)

NextTwoRuns ==
    \/ \E h1, h2 \in Handles, started \in BOOLEAN : HandleInteraction(h1, h2, started)
    \/ \E h1, h2 \in Handles : HandleRemoval(h1, h2)
    \/ \E t \in Timestamps, stamps \in [Handles -> Timestamps] : UpdateTwoRuns(t, stamps)
    \/ \E h \in Handles, qt \in QueryTypes : SetQueryType(h, qt)

TwoRunSpec == Init /\ [][NextTwoRuns]_vars

\* ------------------------------------------------------------- dispatcher misses
\* The same calls, with the pairs a dispatcher had no algorithm for recorded.
TrackedHandleInteraction(handle1, handle2, started) ==
    HandleInteractionStep(handle1, handle2, started, TRUE)

NextTracked ==
    \/ \E h1, h2 \in Handles, started \in BOOLEAN :
           TrackedHandleInteraction(h1, h2, started)
    \/ \E h1, h2 \in Handles : HandleRemoval(h1, h2)
    \/ \E t \in Timestamps, stamps \in [Handles -> Timestamps] : Update(t, stamps)
    \/ \E h \in Handles, qt \in QueryTypes : SetQueryType(h, qt)

TrackedSpec == Init /\ [][NextTracked]_vars

\* ------------------------------------------------------------- the collision world
\* The pairs the broad phase reports when the proxy of h is removed: h with
\* every other object of the world.
RemovedPairs(objs, h) ==
    {SortedPair(h, o) : o \in {x \in Handles \ {h} : objs[x] # NoObject}}

\* remove, for the reported pairs visited in `order` from pair i on: the world
\* pushes the loss of a pair whose state is not empty, as a separation would,
\* and forwards the pair to handle_removal.
RECURSIVE WorldRemovePairs(_, _, _, _)
WorldRemovePairs(acc, order, i, h) ==
    IF i > Len(order)
    THEN acc
    ELSE LET key == order[i]
             other == IF key[1] = h THEN key[2] ELSE key[1]
             cev == IF key \in DOMAIN acc.cg
                    THEN ContactLost(acc.cg[key], h, other) ELSE <<>>
             pev == IF key \in DOMAIN acc.pd
                    THEN ProximityLost(acc.pd[key], h, other) ELSE <<>>
             r == HandleRemovalResult(acc.cg, acc.pd, h, other)
         IN  WorldRemovePairs([cg |-> r.cg, pd |-> r.pd,
                               cev |-> acc.cev \o cev, pev |-> acc.pev \o pev],
                              order, i + 1, h)

\* CollisionWorld::remove(&[h]). Objects are not added again, so the queues
\* stay bounded without a guard here.
WorldRemove(h) ==
    /\ ~panicked
    /\ UNCHANGED rest_vars
    /\ objects[h] # NoObject
    /\ \E order \in IterationOrders(RemovedPairs(objects, h)) :
          LET r == WorldRemovePairs([cg |-> contact_generators,
                                     pd |-> proximity_detectors,
                                     cev |-> <<>>, pev |-> <<>>], order, 1, h)
          IN  /\ contact_generators' = r.cg
              /\ proximity_detectors' = r.pd
              /\ contact_events' = contact_events \o r.cev
              /\ proximity_events' = proximity_events \o r.pev
              /\ replay_contact_events' = replay_contact_events \o r.cev
              /\ replay_proximity_events' = replay_proximity_events \o r.pev
    /\ objects' = [objects EXCEPT ![h] = NoObject]
    /\ UNCHANGED <<panicked, erased_active, dropped>>

\* The world forwards a broad-phase report about two of its objects.
WorldInteraction(handle1, handle2, started) ==
    /\ objects[handle1] # NoObject
    /\ objects[handle2] # NoObject
    /\ HandleInteraction(handle1, handle2, started)

NextWorld ==
    \/ \E h1, h2 \in Handles, started \in BOOLEAN : WorldInteraction(h1, h2, started)
    \/ \E h \in Handles : WorldRemove(h)
    \/ \E t \in Timestamps, stamps \in [Handles -> Timestamps] : Update(t, stamps)

WorldSpec == Init /\ [][NextWorld]_vars

\* ------------------------------------------------------------- point projection on a tetrahedron
\* Vectors and points with integer coordinates are triples; the arithmetic
\* is exact.
Sub(u, v) == <<u[1] - v[1], u[2] - v[2], u[3] - v[3]>>
Plus(u, v) == <<u[1] + v[1], u[2] + v[2], u[3] + v[3]>>
Scale(k, u) == <<k * u[1], k * u[2], k * u[3]>>
Neg(u) == <<-u[1], -u[2], -u[3]>>
dot(u, v) == u[1] * v[1] + u[2] * v[2] + u[3] * v[3]
cross3(u, v) ==
    <<u[2] * v[3] - u[3] * v[2], u[3] * v[1] - u[1] * v[3], u[1] * v[2] - u[2] * v[1]>>

Abs(n) == IF n < 0 THEN -n ELSE n

RECURSIVE Gcd(_, _)
Gcd(m, n) == IF n = 0 THEN m ELSE Gcd(n, m % n)

\* The rational n / d in lowest terms, d > 0.
Ratio(n, d) ==
    LET g == Gcd(Abs(n), Abs(d))
        sign == IF d < 0 THEN -1 ELSE 1
    IN  [num |-> sign * (n \div g), den |-> sign * (d \div g)]

RatioLess(r1, r2) == r1.num * r2.den < r2.num * r1.den

\* A point with rational coordinates x[i] / w.
Exact(pt) == [x |-> pt, w |-> 1]

\* The point ka/w * a + kb/w * b + kc/w * c, which the code builds with axpy.
Barycentric(a, ka, b, kb, c, kc, w) ==
    [x |-> Plus(Plus(Scale(ka, a), Scale(kb, b)), Scale(kc, c)), w |-> w]

\* An isometry is represented by its translation.
transform_point(m, q) == [x |-> Plus(q.x, Scale(q.w, m)), w |-> q.w]
inverse_transform_point(m, pt) == Sub(pt, m)

\* na::norm_squared(&(proj.point - *pt))
SquaredDistance(q, pt) ==
    LET v == Sub(q.x, Scale(q.w, pt))
    IN  Ratio(dot(v, v), q.w * q.w)

PointProjection(is_inside, point) == [is_inside |-> is_inside, point |-> point]

OnVertex(i) == [tag |-> "OnVertex", i |-> i]
OnEdge(i) == [tag |-> "OnEdge", i |-> i]
OnFace(i) == [tag |-> "OnFace", i |-> i]
OnSolid == [tag |-> "OnSolid", i |-> 0]

\* check_edge: the two edge determinants, and the projection if the point is
\* in the region of the edge number i from a to b.
check_edge(i, m, a, b, nabc, nabd, ap, ab, ap_ab, bp_ab) ==
    LET ab_ab == ap_ab - bp_ab
        ap_x_ab == cross3(ap, ab)
        dabc == dot(ap_x_ab, nabc)
        dabd == dot(ap_x_ab, nabd)
    IN  IF dabc >= 0 /\ dabd >= 0 /\ ap_ab >= 0 /\ ap_ab <= ab_ab
        THEN [dabc |-> dabc, dabd |-> dabd,
              res |-> Some([proj |-> PointProjection(FALSE, transform_point(m,
                                  Barycentric(a, ab_ab - ap_ab, b, ap_ab,
                                              a, 0, ab_ab))),
                            loc |-> OnEdge(i)])]
        ELSE [dabc |-> dabc, dabd |-> dabd, res |-> None]

\* check_face: the projection if the point is in the region of the face
\* number i with vertices a, b, c; ad leads to the fourth vertex.
check_face(i, a, b, c, m, ap, bp, cp, ab, ac, ad, dabc, dbca, dacb) ==
    IF dabc < 0 /\ dbca < 0 /\ dacb < 0
    THEN LET n == cross3(ab, ac)
         IN  IF dot(n, ad) * dot(n, ap) < 0
             THEN LET vc == dot(n, cross3(ap, bp))
                      va == dot(n, cross3(bp, cp))
                      vb == dot(n, cross3(cp, ap))
                      denom == va + vb + vc
                  IN  Some([proj |-> PointProjection(FALSE, transform_point(m,
                                         Barycentric(a, va, b, vb, c, vc, denom))),
                            loc |-> OnFace(i)])
             ELSE None
    ELSE None

\* The first of the results that is not None, None if there is none.
FirstSome(results) ==
    IF \E i \in 1..Len(results) : results[i] # None
    THEN results[CHOOSE i \in 1..Len(results) :
                     /\ results[i] # None
                     /\ \A j \in 1..(i - 1) : results[j] = None]
    ELSE None

\* Tetrahedron::project_point_with_location(m, pt, solid = true) for the
\* tetrahedron with vertices t = <<a, b, c, d>>: the regions of the vertices,
\* then of the edges, then of the faces, then the inside.
project_point_with_location(t, m, pt) ==
    LET a == t[1]
        b == t[2]
        c == t[3]
        d == t[4]
        p == inverse_transform_point(m, pt)
        ab == Sub(b, a)
        ac == Sub(c, a)
        ad == Sub(d, a)
        ap == Sub(p, a)
        ap_ab == dot(ap, ab)
        ap_ac == dot(ap, ac)
        ap_ad == dot(ap, ad)
        bc == Sub(c, b)
        bd == Sub(d, b)
        bp == Sub(p, b)
        bp_bc == dot(bp, bc)
        bp_bd == dot(bp, bd)
        bp_ab == dot(bp, ab)
        cd == Sub(d, c)
        cp == Sub(p, c)
        cp_ac == dot(cp, ac)
        cp_bc == dot(cp, bc)
        cp_cd == dot(cp, cd)
        dp == Sub(p, d)
        dp_cd == dot(dp, cd)
        dp_bd == dot(dp, bd)
        dp_ad == dot(dp, ad)
        vertex(v, i) == [proj |-> PointProjection(FALSE, transform_point(m, Exact(v))),
                         loc |-> OnVertex(i)]
        nabc == cross3(ab, ac)
        nabd == cross3(ab, ad)
        nacd == cross3(ac, ad)
        nbcd == cross3(bc, bd)
        eab == check_edge(0, m, a, b, nabc, nabd, ap, ab, ap_ab, bp_ab)
        eac == check_edge(1, m, a, c, nacd, Neg(nabc), ap, ac, ap_ac, cp_ac)
        ead == check_edge(2, m, a, d, Neg(nabd), Neg(nacd), ap, ad, ap_ad, dp_ad)
        ebc == check_edge(3, m, b, c, nabc, nbcd, bp, bc, bp_bc, cp_bc)
        ebd == check_edge(4, m, b, d, Neg(nbcd), nabd, bp, bd, bp_bd, dp_bd)
        ecd == check_edge(5, m, c, d, nacd, nbcd, cp, cd, cp_cd, dp_cd)
        dabc == eab.dabc
        dabd == eab.dabd
        dacd == eac.dabc
        dacb == eac.dabd
        dadb == ead.dabc
        dadc == ead.dabd
        dbca == ebc.dabc
        dbcd == ebc.dabd
        dbdc == ebd.dabc
        dbda == ebd.dabd
        dcda == ecd.dabc
        dcdb == ecd.dabd
        edge == FirstSome(<<eab.res, eac.res, ead.res, ebc.res, ebd.res, ecd.res>>)
        face == FirstSome(<<
            check_face(0, a, b, c, m, ap, bp, cp, ab, ac, ad, dabc, dbca, dacb),
            check_face(1, a, b, d, m, ap, bp, dp, ab, ad, ac, dadb, dabd, dbda),
            check_face(2, a, c, d, m, ap, cp, dp, ac, ad, ab, dacd, dcda, dadc),
            check_face(3, b, c, d, m, bp, cp, dp, bc, bd, Neg(ab), dbcd, dcdb, dbdc)>>)
    IN  IF ap_ab <= 0 /\ ap_ac <= 0 /\ ap_ad <= 0 THEN vertex(a, 0)
        ELSE IF bp_bc <= 0 /\ bp_bd <= 0 /\ bp_ab >= 0 THEN vertex(b, 1)
        ELSE IF cp_cd <= 0 /\ cp_bc >= 0 /\ cp_ac >= 0 THEN vertex(c, 2)
        ELSE IF dp_ad >= 0 /\ dp_bd >= 0 /\ dp_cd >= 0 THEN vertex(d, 3)
        ELSE IF edge # None THEN edge[1]
        ELSE IF face # None THEN face[1]
        ELSE [proj |-> PointProjection(TRUE, transform_point(m, Exact(p))),
              loc |-> OnSolid]

\* Triangle::project_point_with_location(m, pt, solid) for the triangle a, b, c:
\* the closest point of the triangle and the feature it lies on, the edges
\* numbered 0 = ab, 1 = bc, 2 = ca.
triangle_project_point_with_location(a, b, c, m, pt) ==
    LET p == inverse_transform_point(m, pt)
        ab == Sub(b, a)
        ac == Sub(c, a)
        ap == Sub(p, a)
        bp == Sub(p, b)
        cp == Sub(p, c)
        d1 == dot(ab, ap)
        d2 == dot(ac, ap)
        d3 == dot(ab, bp)
        d4 == dot(ac, bp)
        d5 == dot(ab, cp)
        d6 == dot(ac, cp)
        vc == d1 * d4 - d3 * d2
        vb == d5 * d2 - d1 * d6
        va == d3 * d6 - d5 * d4
        at(q, loc) == [proj |-> PointProjection(FALSE, transform_point(m, q)),
                       loc |-> loc]
    IN  IF d1 <= 0 /\ d2 <= 0 THEN at(Exact(a), OnVertex(0))
        ELSE IF d3 >= 0 /\ d4 <= d3 THEN at(Exact(b), OnVertex(1))
        ELSE IF vc <= 0 /\ d1 >= 0 /\ d3 <= 0
             THEN at(Barycentric(a, -d3, b, d1, c, 0, d1 - d3), OnEdge(0))
        ELSE IF d6 >= 0 /\ d5 <= d6 THEN at(Exact(c), OnVertex(2))
        ELSE IF vb <= 0 /\ d2 >= 0 /\ d6 <= 0
             THEN at(Barycentric(a, -d6, b, 0, c, d2, d2 - d6), OnEdge(2))
        ELSE IF va <= 0 /\ d4 - d3 >= 0 /\ d5 - d6 >= 0
             THEN at(Barycentric(a, 0, b, d5 - d6, c, d4 - d3, (d4 - d3) + (d5 - d6)),
                     OnEdge(1))
        ELSE at(Barycentric(a, va, b, vb, c, vc, va + vb + vc), OnFace(0))

\* The tetrahedron's edge for each edge of each face, and its vertex for each
\* vertex of each face.
FaceEdges == <<<<0, 3, 1>>, <<0, 4, 2>>, <<1, 5, 2>>, <<3, 5, 4>>>>
FaceVertices == <<<<0, 1, 2>>, <<0, 1, 3>>, <<0, 2, 3>>, <<1, 2, 3>>>>

\* The face of projs with the smallest squared distance to pt from face i on,
\* the first one among equals; 42 if no face was projected on.
RECURSIVE Smallest(_, _, _, _, _)
Smallest(projs, pt, i, smallest_id, smallest_dist) ==
    IF i > 4
    THEN smallest_id
    ELSE IF projs[i] # None
            /\ (smallest_id = 42
                \/ RatioLess(SquaredDistance(projs[i][1].proj.point, pt), smallest_dist))
         THEN Smallest(projs, pt, i + 1, i - 1,
                       SquaredDistance(projs[i][1].proj.point, pt))
         ELSE Smallest(projs, pt, i + 1, smallest_id, smallest_dist)

\* Tetrahedron::project_point_with_location2(m, pt, solid): the brute-force
\* version, which projects on each face that has the point on its outer side.
project_point_with_location2(t, m, pt) ==
    LET a == t[1]
        b == t[2]
        c == t[3]
        d == t[4]
        ap == Sub(pt, a)
        ab == Sub(b, a)
        ac == Sub(c, a)
        ad == Sub(d, a)
        n1 == cross3(ab, ac)
        bp == Sub(pt, b)
        n2 == cross3(ab, ad)
        n3 == cross3(ac, ad)
        bc == Sub(c, b)
        bd == Sub(d, b)
        n4 == cross3(bc, bd)
        projs == <<
            IF dot(n1, ad) * dot(n1, ap) <= 0
            THEN Some(triangle_project_point_with_location(a, b, c, m, pt)) ELSE None,
            IF dot(n2, ac) * dot(n2, ap) <= 0
            THEN Some(triangle_project_point_with_location(a, b, d, m, pt)) ELSE None,
            IF dot(n3, ab) * dot(n3, ap) <= 0
            THEN Some(triangle_project_point_with_location(a, c, d, m, pt)) ELSE None,
            IF (-dot(n4, ab)) * dot(n4, bp) <= 0
            THEN Some(triangle_project_point_with_location(b, c, d, m, pt)) ELSE None>>
        smallest_id == Smallest(projs, pt, 1, 42, Ratio(0, 1))
    IN  IF smallest_id = 42
        THEN [proj |-> PointProjection(TRUE, Exact(pt)), loc |-> OnSolid]
        ELSE LET found == projs[smallest_id + 1][1]
                 new_loc ==
                     CASE found.loc.tag = "OnVertex" ->
                              OnVertex(FaceVertices[smallest_id + 1][found.loc.i + 1])
                       [] found.loc.tag = "OnEdge" ->
                              OnEdge(FaceEdges[smallest_id + 1][found.loc.i + 1])
                       [] found.loc.tag = "OnFace" -> OnFace(smallest_id)
                       [] OTHER -> OnSolid
             IN  [proj |-> found.proj, loc |-> new_loc]

\* The tetrahedra, isometries and points the queries are drawn from.
Tetrahedra ==
    {<< <<0, 0, 0>>, <<2, 0, 0>>, <<0, 2, 0>>, <<0, 0, 2>> >>,
     << <<0, 0, 0>>, <<3, 0, 0>>, <<1, 3, 0>>, <<1, 1, 3>> >>}
Isometries == {<<0, 0, 0>>, <<-1, -1, -1>>}
Coordinates == (-1)..3
QueryPoints == Coordinates \X Coordinates \X Coordinates

\* A caller projects pt on the tetrahedron t placed by m, with the Voronoi
\* version and with the brute-force version.
ProjectPoint(t, m, pt) ==
    /\ projection = NoProjection
    /\ projection' = [stage |-> "projected", t |-> t, m |-> m, pt |-> pt,
                      result |-> project_point_with_location(t, m, pt),
                      reference |-> project_point_with_location2(t, m, pt)]
    /\ UNCHANGED <<narrow_vars, broad_vars, world_vars>>

\* The caller drops the results.
ForgetProjection ==
    /\ projection # NoProjection
    /\ projection' = NoProjection
    /\ UNCHANGED <<narrow_vars, broad_vars, world_vars>>

NextProjection ==
    \/ \E t \in Tetrahedra, m \in Isometries, pt \in QueryPoints : ProjectPoint(t, m, pt)
    \/ ForgetProjection

ProjectionSpec == Init /\ [][NextProjection]_vars

\* ------------------------------------------------------------- the broad phase
\* Lengths are in tenths: the ball of radius 0.5 has radius 5 and the
\* looseness 0.2 of DBVTBroadPhase::new is 2.
BallRadius == 5
Looseness == 2

\* The positions of the four balls, a position within the looseness of the
\* last one, and a position away from them all.
poss == << <<0, 0, 0>>, <<0, 5, 0>>, <<5, 0, 0>>, <<5, 5, 0>> >>
Centres == {<<7, 5, 0>>, <<20, 0, 0>>}

\* The axis-aligned bounding box of the ball at a position.
aabb(radius, centre) ==
    [mins |-> [k \in 1..3 |-> centre[k] - radius],
     maxs |-> [k \in 1..3 |-> centre[k] + radius]]

\* The bounding volume proxy id is created with, and those it may be given later.
CreatedVolume(id) == aabb(BallRadius, poss[id + 1])
BoundingVolumes(id) == {CreatedVolume(id)} \cup {aabb(BallRadius, c) : c \in Centres}

loosened(bv, margin) ==
    [mins |-> [k \in 1..3 |-> bv.mins[k] - margin],
     maxs |-> [k \in 1..3 |-> bv.maxs[k] + margin]]

intersects(bv1, bv2) ==
    \A k \in 1..3 : bv1.mins[k] <= bv2.maxs[k] /\ bv2.mins[k] <= bv1.maxs[k]

contains(bv1, bv2) ==
    \A k \in 1..3 : bv1.mins[k] <= bv2.mins[k] /\ bv2.maxs[k] <= bv1.maxs[k]

\* A proxy of the tree: its loose bounding volume; its payload is its id.
Proxy(loose) == [status |-> "live", loose |-> loose]
\* A proxy whose Create is pending: it has an id and is not in the tree.
Created == [status |-> "created"]

Create(id, bv) == [op |-> "Create", id |-> id, bv |-> bv]
Move(id, bv) == [op |-> "Move", id |-> id, bv |-> bv]

\* The filters an update is given: the one that prevents self-collision only,
\* and one that also keeps proxy 3 out of every pair.
Filters == {"distinct", "without_3"}
filter(f, a, b) == a # b /\ (f = "without_3" => (a # 3 /\ b # 3))

ProxyPair(a, b) == IF a > b THEN <<b, a>> ELSE <<a, b>>
ProxyPairs == {ProxyPair(a, b) : a \in ProxyIds, b \in ProxyIds} \ {<<i, i>> : i \in ProxyIds}

Live(table) == {id \in ProxyIds : table[id].status = "live"}
Allocated(table) == {id \in ProxyIds : table[id].status # "free"}

\* The reports of the pairs of S, in the order of the pairs.
RECURSIVE PairReports(_, _)
PairReports(S, started) ==
    IF S = {} THEN <<>>
    ELSE LET p == CHOOSE p \in S :
                      \A q \in S : p[1] < q[1] \/ (p[1] = q[1] /\ p[2] <= q[2])
         IN  <<[a |-> p[1], b |-> p[2], started |-> started]>>
                 \o PairReports(S \ {p}, started)

\* update forgets the pairs of the proxies that did not move.
NewPairs_NoCarry(table, cur, moved, f) ==
    {ProxyPair(m, o) : <<m, o>> \in
        {mo \in moved \X Live(table) :
            /\ mo[1] # mo[2]
            /\ intersects(table[mo[1]].loose, table[mo[2]].loose)
            /\ filter(f, mo[1], mo[2])}}

\* Steps 3 and 4 of update: the pairs a moved proxy makes with the proxies
\* whose loose volumes its own overlaps and that the filter accepts, and the
\* pairs of the current set neither endpoint of which moved.
NewPairs(table, cur, moved, f) ==
    {ProxyPair(m, o) : <<m, o>> \in
        {mo \in moved \X Live(table) :
            /\ mo[1] # mo[2]
            /\ intersects(table[mo[1]].loose, table[mo[2]].loose)
            /\ filter(f, mo[1], mo[2])}}
    \cup {p \in cur : p[1] \notin moved /\ p[2] \notin moved}

\* update reports the stopped pairs first.
UpdateReports_StoppedFirst(cur, new) ==
    PairReports(cur \ new, FALSE) \o PairReports(new \ cur, TRUE)

\* Step 5 of update: the started pairs are reported, then the stopped ones.
UpdateReports(cur, new) ==
    PairReports(new \ cur, TRUE) \o PairReports(cur \ new, FALSE)

\* update(filter, on_pair_event): what it leaves in the proxy table and in
\* the current set, and the reports it makes.
BroadPhaseUpdateResult(table, ops, cur, f, margin) ==
    LET creates == {o \in ops : o.op = "Create"}
        moves == {o \in ops : o.op = "Move"}
        created == [id \in ProxyIds |->
                       IF \E o \in creates : o.id = id
                       THEN Proxy(loosened((CHOOSE o \in creates : o.id = id).bv,
                                           margin))
                       ELSE table[id]]
        escaped == {o \in moves : /\ created[o.id].status = "live"
                                  /\ ~contains(created[o.id].loose, o.bv)}
        moved_table == [id \in ProxyIds |->
                           IF \E o \in escaped : o.id = id
                           THEN Proxy(loosened((CHOOSE o \in escaped : o.id = id).bv,
                                               margin))
                           ELSE created[id]]
        moved == {o.id : o \in creates} \cup {o.id : o \in escaped}
        new == NewPairs(moved_table, cur, moved, f)
    IN  [proxies |-> moved_table, current |-> new, reports |-> UpdateReports(cur, new)]

\* remove(ids, on_pair_gone): the pairs of the current set a removed proxy is in.
GonePairs(cur, ids) == {p \in cur : p[1] \in ids \/ p[2] \in ids}

num_interferences == Cardinality(current)

create_proxy ==
    /\ Allocated(proxies) # ProxyIds
    /\ LET id == CHOOSE id \in ProxyIds \ Allocated(proxies) :
                     \A other \in ProxyIds \ Allocated(proxies) : id <= other
       IN  /\ proxies' = [proxies EXCEPT ![id] = Created]
           /\ pending' = pending \cup {Create(id, CreatedVolume(id))}
    /\ reports' = <<>>
    /\ UNCHANGED <<current, filters, narrow_vars, projection, world_vars>>

\* A Move replaces the Move pending for the same proxy.
deferred_set_bounding_volume(id, bv) ==
    /\ id \in Allocated(proxies)
    /\ bv \in BoundingVolumes(id)
    /\ Cardinality({o \in pending : o.op = "Move" /\ o.id # id}) < MaxMoves
    /\ pending' = {o \in pending : ~(o.op = "Move" /\ o.id = id)} \cup {Move(id, bv)}
    /\ reports' = <<>>
    /\ UNCHANGED <<proxies, current, filters, narrow_vars, projection, world_vars>>

BroadPhaseRemove(ids) ==
    /\ ids # {}
    /\ ids \subseteq Allocated(proxies)
    /\ proxies' = [id \in ProxyIds |-> IF id \in ids THEN NoProxy ELSE proxies[id]]
    /\ pending' = {o \in pending : o.id \notin ids}
    /\ current' = current \ GonePairs(current, ids)
    /\ reports' = PairReports(GonePairs(current, ids), FALSE)
    /\ UNCHANGED <<filters, narrow_vars, projection, world_vars>>

BroadPhaseUpdate(f) ==
    LET res == BroadPhaseUpdateResult(proxies, pending, current, f, Looseness)
    IN  /\ proxies' = res.proxies
        /\ pending' = {}
        /\ current' = res.current
        /\ reports' = res.reports
        /\ filters' = filters \cup {f}
        /\ UNCHANGED <<narrow_vars, projection, world_vars>>

NextBroadPhase ==
    \/ create_proxy
    \/ \E id \in ProxyIds : \E bv \in BoundingVolumes(id) :
           deferred_set_bounding_volume(id, bv)
    \/ \E ids \in SUBSET ProxyIds : BroadPhaseRemove(ids)
    \/ \E f \in Filters : BroadPhaseUpdate(f)

BroadPhaseInit == Init /\ \A h \in Handles : objects[h].query_type = Contacts

BroadPhaseSpec == BroadPhaseInit /\ [][NextBroadPhase]_vars

\* ------------------------------------------------------------- the world and its broad phase
\* The balls of the world have radius 1, the world's looseness is 0.1, and a
\* Proximity query has margin 0.5; in tenths.
WorldRadius == 10
WorldLooseness == 1
ProximityMargin == 5

\* Where set_position may put an object: where the first or the last one was
\* added, or away from them all.
WorldPositions == {AddedPosition(1), AddedPosition(3), <<10, 50, 0>>}

WorldVolume(p) == aabb(WorldRadius, p)

distance_squared(p, q) == dot(Sub(p, q), Sub(p, q))

\* What the contact algorithm of two objects reports for their positions.
GeometryContacts(p, q) ==
    IF distance_squared(p, q) < (2 * WorldRadius) * (2 * WorldRadius) THEN 1 ELSE 0

\* What the proximity algorithm of two objects reports for their positions.
GeometryProximity(p, q) ==
    IF distance_squared(p, q) < (2 * WorldRadius) * (2 * WorldRadius)
    THEN Intersecting
    ELSE IF distance_squared(p, q)
                < (2 * WorldRadius + ProximityMargin) * (2 * WorldRadius + ProximityMargin)
         THEN WithinMargin
         ELSE Disjoint

\* The world after its three add: every object is stamped and has a proxy
\* the Create of which is pending.
MotionInit ==
    /\ \E qt \in QueryTypes :
           objects = [h \in Handles |-> Object(IF h = 2 THEN qt ELSE Contacts, h)]
    /\ contact_generators = EmptyMap
    /\ proximity_detectors = EmptyMap
    /\ contact_events = <<>>
    /\ proximity_events = <<>>
    /\ replay_contact_events = <<>>
    /\ replay_proximity_events = <<>>
    /\ panicked = FALSE
    /\ erased_active = [p \in Pairs |-> <<>>]
    /\ dropped = {}
    /\ projection = NoProjection
    /\ proxies = [id \in ProxyIds |-> IF id \in Handles THEN Created ELSE NoProxy]
    /\ pending = {Create(h, WorldVolume(AddedPosition(h))) : h \in Handles}
    /\ current = {}
    /\ reports = <<>>
    /\ filters = {}
    /\ positions = [h \in Handles |-> AddedPosition(h)]
    /\ stamped = Handles
    /\ trip = NoTrip

\* The sequence of calls followed once set_position(h, p) is called on an
\* object at position old: the second set_position of a sequence is one that
\* puts the object where the first one did.
TripAfterSetPosition(t, h, p, old) ==
    IF t.op = "set_position" /\ t.stage = 2 /\ t.h = h /\ p = old
    THEN [t EXCEPT !.stage = 3]
    ELSE [op |-> "set_position", h |-> h, stage |-> 1]

\* The sequence of calls followed once update is called: set_position,
\* update, set_position, update, or remove, update, update.
TripAfterUpdate(t) ==
    IF t.op = "set_position" /\ t.stage \in {1, 3} THEN [t EXCEPT !.stage = t.stage + 1]
    ELSE IF t.op = "remove" /\ t.stage \in {1, 2} THEN [t EXCEPT !.stage = t.stage + 1]
    ELSE NoTrip

\* CollisionWorld::set_position(h, p)
WorldSetPosition(h, p) ==
    /\ ~panicked
    /\ objects[h] # NoObject
    /\ Cardinality({o \in pending : o.op = "Move" /\ o.id # h}) < MaxMoves
    /\ positions' = [positions EXCEPT ![h] = p]
    /\ stamped' = stamped \cup {h}
    /\ pending' = {o \in pending : ~(o.op = "Move" /\ o.id = h)}
                      \cup {Move(h, WorldVolume(p))}
    /\ reports' = <<>>
    /\ trip' = TripAfterSetPosition(trip, h, p, positions[h])
    /\ UNCHANGED <<narrow_vars, projection, proxies, current, filters>>

\* The pairs of S, in the order of the reports about them.
PairSeq(S) == [i \in 1..Cardinality(S) |->
                  <<PairReports(S, FALSE)[i].a, PairReports(S, FALSE)[i].b>>]

\* CollisionWorld::remove(&[h]): the broad phase removes the proxy and
\* reports the pairs of its current set h is in; the world forwards each.
WorldRemoveObject(h) ==
    /\ ~panicked
    /\ objects[h] # NoObject
    /\ LET gone == GonePairs(current, {h})
           r == WorldRemovePairs([cg |-> contact_generators,
                                  pd |-> proximity_detectors,
                                  cev |-> <<>>, pev |-> <<>>], PairSeq(gone), 1, h)
       IN  /\ contact_generators' = r.cg
           /\ proximity_detectors' = r.pd
           /\ contact_events' = contact_events \o r.cev
           /\ proximity_events' = proximity_events \o r.pev
           /\ replay_contact_events' = replay_contact_events \o r.cev
           /\ replay_proximity_events' = replay_proximity_events \o r.pev
           /\ current' = current \ gone
           /\ reports' = PairReports(gone, FALSE)
    /\ objects' = [objects EXCEPT ![h] = NoObject]
    /\ proxies' = [proxies EXCEPT ![h] = NoProxy]
    /\ pending' = {o \in pending : o.id # h}
    /\ positions' = [positions EXCEPT ![h] = AddedPosition(h)]
    /\ stamped' = stamped \ {h}
    /\ trip' = [op |-> "remove", h |-> h, stage |-> 1]
    /\ UNCHANGED <<panicked, erased_active, dropped, projection, filters>>

\* Step 2 of update: each report of the broad phase, from report i on, is
\* forwarded to handle_interaction.
RECURSIVE ForwardReports(_, _, _, _)
ForwardReports(acc, log, i, objs) ==
    IF i > Len(log)
    THEN acc
    ELSE LET r == HandleInteractionResult(acc.cg, acc.pd, objs,
                                          log[i].a, log[i].b, log[i].started)
         IN  ForwardReports([cg |-> r.cg, pd |-> r.pd,
                             cev |-> acc.cev \o r.cev, pev |-> acc.pev \o r.pev],
                            log, i + 1, objs)

\* The timestamp of the world, and the one of the objects that were not
\* stamped since the last update.
Now == 1
Earlier == 0

\* CollisionWorld::update(): the event queues are cleared, the broad phase is
\* updated and its reports forwarded, the narrow phase is updated at the
\* world's timestamp, which then changes.
WorldUpdate ==
    /\ ~panicked
    /\ LET b == BroadPhaseUpdateResult(proxies, pending, current, "distinct",
                                       WorldLooseness)
           i == ForwardReports([cg |-> contact_generators, pd |-> proximity_detectors,
                                cev |-> <<>>, pev |-> <<>>], b.reports, 1, objects)
           slab == Slab(objects, [h \in Handles |-> IF h \in stamped THEN Now ELSE Earlier])
           counts == [k \in DOMAIN i.cg |->
                         GeometryContacts(positions[k[1]], positions[k[2]])]
           proxs == [k \in DOMAIN i.pd |->
                        GeometryProximity(positions[k[1]], positions[k[2]])]
       IN  /\ proxies' = b.proxies
           /\ current' = b.current
           /\ reports' = b.reports
           /\ \E corder \in IterationOrders(DOMAIN i.cg),
                 porder \in IterationOrders(DOMAIN i.pd) :
                 LET r == UpdateResult(i.cg, i.pd, slab, Now, corder, porder,
                                       counts, proxs)
                 IN  /\ contact_generators' = r.cg
                     /\ proximity_detectors' = r.pd
                     /\ contact_events' = i.cev \o r.cev
                     /\ proximity_events' = i.pev \o r.pev
                     /\ replay_contact_events' = i.cev \o r.cev
                     /\ replay_proximity_events' = i.pev \o r.pev
                     /\ panicked' = r.panic
    /\ pending' = {}
    /\ stamped' = {}
    /\ filters' = filters \cup {"distinct"}
    /\ trip' = TripAfterUpdate(trip)
    /\ UNCHANGED <<objects, erased_active, dropped, projection, positions>>

NextMotion ==
    \/ \E h \in Handles, p \in WorldPositions : WorldSetPosition(h, p)
    \/ \E h \in Handles : WorldRemoveObject(h)
    \/ WorldUpdate

MotionSpec == MotionInit /\ [][NextMotion]_vars

\* ------------------------------------------------------------- properties
\* The unordered pair an event is about.
PairOf(e) == SortedPair(e.h1, e.h2)

\* The positions of `log` holding an event of `type` about the pair p.
Positions(log, type, p) ==
    {i \in 1..Len(log) : log[i].type = type /\ PairOf(log[i]) = p}

\* The events about the pair p that the step appended to a queue.
Appended(before, after, p) ==
    SelectSeq(SubSeq(after, Len(before) + 1, Len(after)), LAMBDA e : PairOf(e) = p)

\* The pair's contact algorithm reports at least one contact.
Active(p) == p \in DOMAIN contact_generators /\ contact_generators[p] # 0

\* Two consecutive Started events of the pair p, at positions i < j.
ConsecutiveStarted(p, i, j) ==
    /\ i \in Positions(contact_events, "Started", p)
    /\ j \in Positions(contact_events, "Started", p)
    /\ i < j
    /\ \A k \in (i + 1)..(j - 1) : k \notin Positions(contact_events, "Started", p)

StoppedBetween(p, i, j) ==
    {k \in (i + 1)..(j - 1) : k \in Positions(contact_events, "Stopped", p)}

\* The handle_removal calls that erased p's entry, then reporting a contact,
\* after event i and before event j were pushed.
ErasedBetween(p, i, j) ==
    {x \in 1..Len(erased_active[p]) :
        i <= erased_active[p][x] /\ erased_active[p][x] < j}

StartedCountInvariant ==
    \A p \in Pairs :
        Cardinality(Positions(contact_events, "Started", p)) =
            Cardinality(Positions(contact_events, "Stopped", p))
                + (IF Active(p) THEN 1 ELSE 0)

\* C3 as amended: the Started events of a pair are as many as its Stopped
\* events, plus the handle_removal calls that erased its entry while it
\* reported a contact, plus one if the pair is active now.
StartedCountWithRemovals ==
    \A p \in Pairs :
        Cardinality(Positions(contact_events, "Started", p)) =
            Cardinality(Positions(contact_events, "Stopped", p))
                + Len(erased_active[p])
                + (IF Active(p) THEN 1 ELSE 0)

\* C3, reached: a pair that started once and is no longer active because
\* handle_removal erased its entry.
StartedCountReached ==
    \E p \in Pairs :
        /\ ~Active(p)
        /\ Cardinality(Positions(contact_events, "Started", p)) = 1
        /\ Cardinality(Positions(contact_events, "Stopped", p)) = 0
        /\ Len(erased_active[p]) = 1

\* C4 as claimed: two runs fed the same calls with the same inputs have pushed
\* the same contact events and the same proximity events, in the same order.
RunsEmitSameEvents ==
    /\ replay_contact_events = contact_events
    /\ replay_proximity_events = proximity_events

\* C5 as claimed: no pair has an entry in both maps.
MapsMutuallyExclusive ==
    DOMAIN contact_generators \cap DOMAIN proximity_detectors = {}

\* The events the step appended to a queue.
Pushed(before, after) == SubSeq(after, Len(before) + 1, Len(after))

BothContacts(objs, h1, h2) ==
    objs[h1].query_type = Contacts /\ objs[h2].query_type = Contacts

\* update recomputes, at timestamp t, a pair stored in the map its endpoints'
\* query types do not select.
DrivenMismatched(t, stamps) ==
    LET objs == Slab(objects, stamps)
    IN  \/ \E k \in Recomputed(contact_generators, objs, t) :
               ~BothContacts(objs, k[1], k[2])
        \/ \E k \in Recomputed(proximity_detectors, objs, t) :
               BothContacts(objs, k[1], k[2])

\* C6 as claimed: an update that recomputes a pair whose endpoints' query
\* types do not match the map the pair is stored in panics.
MismatchedUpdatePanics ==
    [][\A t \in Timestamps, stamps \in [Handles -> Timestamps] :
          (Update(t, stamps) /\ DrivenMismatched(t, stamps)) => panicked']_vars

\* C7 as claimed: after handle_interaction(h1, h2, false) the pair has no
\* entry in the contact map and none in the proximity map.
StoppedInteractionLeavesNoEntry ==
    [][\A h1, h2 \in Handles :
          HandleInteraction(h1, h2, FALSE) =>
              /\ SortedPair(h1, h2) \notin DOMAIN contact_generators'
              /\ SortedPair(h1, h2) \notin DOMAIN proximity_detectors']_vars

\* C8: handle_interaction(h1, h2, false) pushes Stopped(h1, h2) alone when it
\* removes a contact algorithm that reported a contact, and no contact event
\* otherwise; it pushes ProximityEvent(h1, h2, prev, Disjoint) alone when it
\* removes a proximity algorithm whose state prev was not Disjoint, and no
\* proximity event otherwise; with no entry to remove it pushes nothing.
StoppedInteractionEvents ==
    [][\A h1, h2 \in Handles :
          (HandleInteraction(h1, h2, FALSE) /\ ~panicked') =>
              LET key == SortedPair(h1, h2)
                  contact_removed == /\ key \in DOMAIN contact_generators
                                     /\ key \notin DOMAIN contact_generators'
                  proximity_removed == /\ key \in DOMAIN proximity_detectors
                                       /\ key \notin DOMAIN proximity_detectors'
              IN  /\ Pushed(contact_events, contact_events') =
                        IF contact_removed /\ contact_generators[key] > 0
                        THEN <<Stopped(h1, h2)>>
                        ELSE <<>>
                  /\ Pushed(proximity_events, proximity_events') =
                        IF proximity_removed /\ proximity_detectors[key] # Disjoint
                        THEN <<ProximityEvent(h1, h2, proximity_detectors[key], Disjoint)>>
                        ELSE <<>>]_vars

\* C8, reached: the pair (1, 2) started in an update and was then stopped by
\* handle_interaction(2, 1, false), its entry removed.
StoppedInteractionReached ==
    /\ contact_events = <<Started(1, 2), Stopped(2, 1)>>
    /\ <<1, 2>> \notin DOMAIN contact_generators

\* What handle_interaction(h1, h2, true) leaves behind: an entry in the map
\* the query types select, a fresh algorithm of the matching dispatcher if
\* the pair had none there; with no algorithm, nothing new and no event.
StartedInteractionEntry(h1, h2) ==
    LET key == SortedPair(h1, h2)
        s1 == objects[h1].shape
        s2 == objects[h2].shape
    IN  IF BothContacts(objects, h1, h2)
        THEN /\ proximity_detectors' = proximity_detectors
             /\ IF get_contact_algorithm(s1, s2) = None
                THEN /\ contact_generators' = contact_generators
                     /\ contact_events' = contact_events
                     /\ proximity_events' = proximity_events
                ELSE /\ key \in DOMAIN contact_generators'
                     /\ key \notin DOMAIN contact_generators =>
                            contact_generators'[key] = get_contact_algorithm(s1, s2)[1]
        ELSE /\ contact_generators' = contact_generators
             /\ IF get_proximity_algorithm(s1, s2) = None
                THEN /\ proximity_detectors' = proximity_detectors
                     /\ contact_events' = contact_events
                     /\ proximity_events' = proximity_events
                ELSE /\ key \in DOMAIN proximity_detectors'
                     /\ key \notin DOMAIN proximity_detectors =>
                            proximity_detectors'[key] = get_proximity_algorithm(s1, s2)[1]

\* The step appends no event about the pair p.
NoEventFor(p) ==
    /\ Appended(contact_events, contact_events', p) = <<>>
    /\ Appended(proximity_events, proximity_events', p) = <<>>

\* C9 as claimed: handle_interaction(h1, h2, true) creates the entry in the
\* map the query types select, from the matching dispatcher; when the
\* dispatcher returns none it creates no entry and pushes no event, and no
\* later step pushes an event about that pair.
DroppedPairNeverEmits ==
    [][/\ \A h1, h2 \in Handles :
              (TrackedHandleInteraction(h1, h2, TRUE) /\ ~panicked') =>
                  StartedInteractionEntry(h1, h2)
       /\ \A p \in dropped : NoEventFor(p)]_vars

\* C9 as amended: handle_interaction(h1, h2, true) creates the entry in the
\* map the query types select, from the matching dispatcher; when the
\* dispatcher returns none it creates no entry and pushes no event, and no
\* step pushes an event about a pair that has no entry in either map.
PairWithoutEntryNeverEmits ==
    [][/\ \A h1, h2 \in Handles :
              (TrackedHandleInteraction(h1, h2, TRUE) /\ ~panicked') =>
                  StartedInteractionEntry(h1, h2)
       /\ \A p \in Pairs :
              (p \notin DOMAIN contact_generators /\ p \notin DOMAIN proximity_detectors)
                  => NoEventFor(p)]_vars

\* C9, reached: a pair a dispatcher had no algorithm for, later given an
\* entry by the other dispatcher and started.
DroppedPairReached ==
    \E p \in dropped : Positions(contact_events, "Started", p) # {}

\* C10: for a contact entry that a step keeps, the step pushes one Started
\* event of the pair and nothing else about it when the count goes from 0 to
\* positive, one Stopped event when it goes from positive to 0, and no contact
\* event of the pair when the count stays 0 or stays positive.
UpdateContactEvents ==
    [][\A k \in DOMAIN contact_generators \cap DOMAIN contact_generators' :
          Appended(contact_events, contact_events', k) =
              IF contact_generators[k] = 0 /\ contact_generators'[k] > 0
              THEN <<Started(k[1], k[2])>>
              ELSE IF contact_generators[k] > 0 /\ contact_generators'[k] = 0
                   THEN <<Stopped(k[1], k[2])>>
                   ELSE <<>>]_vars

\* C10, reached: update found a contact for the pair (1, 2), then none; the
\* entry is still there.
UpdateContactEventsReached ==
    /\ contact_events = <<Started(1, 2), Stopped(1, 2)>>
    /\ <<1, 2>> \in DOMAIN contact_generators
    /\ contact_generators[<<1, 2>>] = 0

ProximityEventsAreChanges ==
    [][/\ \A i \in 1..Len(proximity_events') :
              proximity_events'[i].prev # proximity_events'[i].new
       /\ \A k \in DOMAIN proximity_detectors \cap DOMAIN proximity_detectors' :
              Appended(proximity_events, proximity_events', k) =
                  IF proximity_detectors'[k] # proximity_detectors[k]
                  THEN <<ProximityEvent(k[1], k[2], proximity_detectors[k],
                                        proximity_detectors'[k])>>
                  ELSE <<>>]_vars

\* C11, reached: update moved the pair (1, 2) from Disjoint to Intersecting
\* and then to WithinMargin.
ProximityEventsReached ==
    /\ proximity_events = <<ProximityEvent(1, 2, Disjoint, Intersecting),
                            ProximityEvent(1, 2, Intersecting, WithinMargin)>>
    /\ <<1, 2>> \in DOMAIN proximity_detectors
    /\ proximity_detectors[<<1, 2>>] = WithinMargin

\* Neither endpoint of the pair k carries the timestamp t.
NotStamped(k, t, stamps) == stamps[k[1]] # t /\ stamps[k[2]] # t

\* The step leaves alone every pair that is not stamped t: its algorithm's
\* state is the same and no event about it is pushed.
UnstampedUntouched(t, stamps) ==
    /\ \A k \in DOMAIN contact_generators :
           NotStamped(k, t, stamps) =>
               /\ k \in DOMAIN contact_generators'
               /\ contact_generators'[k] = contact_generators[k]
               /\ Appended(contact_events, contact_events', k) = <<>>
    /\ \A k \in DOMAIN proximity_detectors :
           NotStamped(k, t, stamps) =>
               /\ k \in DOMAIN proximity_detectors'
               /\ proximity_detectors'[k] = proximity_detectors[k]
               /\ Appended(proximity_events, proximity_events', k) = <<>>

\* C17: update(timestamp) leaves the algorithm state of every pair neither of
\* whose endpoints has a modification timestamp equal to timestamp unchanged
\* and pushes no event about it.
UpdateSkipsUnstamped ==
    [][\A t \in Timestamps, stamps \in [Handles -> Timestamps] :
          UnstampedUntouched(t, stamps) \/ ~Update(t, stamps)]_vars

\* C17, reached: the pairs (1, 2) and (1, 3) both have a contact algorithm and
\* an update has started the second one only.
UpdateSkipsReached ==
    /\ DOMAIN contact_generators = {<<1, 2>>, <<1, 3>>}
    /\ contact_generators[<<1, 2>>] = 0
    /\ contact_generators[<<1, 3>>] = 1
    /\ contact_events = <<Started(1, 3)>>

\* The pair has an entry in the map that the query types of h1 and h2 select.
HasSelectedEntry(h1, h2) ==
    IF BothContacts(objects, h1, h2)
    THEN SortedPair(h1, h2) \in DOMAIN contact_generators
    ELSE SortedPair(h1, h2) \in DOMAIN proximity_detectors

\* C18: handle_interaction(h1, h2, true) on a pair that has an entry in the
\* selected map leaves both maps as they are, algorithm states included, and
\* pushes no event, and so does the call with (h2, h1).
StartedAgainKeepsEntry ==
    \A h1, h2 \in Handles :
        (h1 # h2 /\ HasSelectedEntry(h1, h2)) =>
            /\ HandleInteractionResult(contact_generators, proximity_detectors,
                                       objects, h1, h2, TRUE)
                   = [cg |-> contact_generators, pd |-> proximity_detectors,
                      cev |-> <<>>, pev |-> <<>>]
            /\ HandleInteractionResult(contact_generators, proximity_detectors,
                                       objects, h2, h1, TRUE)
                   = [cg |-> contact_generators, pd |-> proximity_detectors,
                      cev |-> <<>>, pev |-> <<>>]

\* C18, reached: the pair (1, 2) has a contact algorithm reporting a contact
\* and the pair (1, 3) one reporting none, both selected by the query types.
StartedAgainReached ==
    /\ HasSelectedEntry(2, 1)
    /\ HasSelectedEntry(1, 3)
    /\ Active(<<1, 2>>)
    /\ <<1, 3>> \in DOMAIN contact_generators
    /\ contact_generators[<<1, 3>>] = 0

\* C19: update leaves the set of pairs keyed in the contact map and the set
\* keyed in the proximity map as they were.
UpdateKeepsKeys ==
    [][\A t \in Timestamps, stamps \in [Handles -> Timestamps] :
          \/ /\ DOMAIN contact_generators' = DOMAIN contact_generators
             /\ DOMAIN proximity_detectors' = DOMAIN proximity_detectors
          \/ ~Update(t, stamps)]_vars

\* C19, reached: update stopped the pair (1, 3), whose entry is still there,
\* next to a proximity entry.
UpdateKeepsKeysReached ==
    /\ contact_events = <<Started(1, 3), Stopped(1, 3)>>
    /\ <<1, 3>> \in DOMAIN contact_generators
    /\ contact_generators[<<1, 3>>] = 0
    /\ DOMAIN proximity_detectors # {}

\* The squared distance from p to the segment from a to b.
SegmentSquaredDistance(a, b, p) ==
    LET ab == Sub(b, a)
        ap == Sub(p, a)
        bp == Sub(p, b)
    IN  IF dot(ap, ab) <= 0 THEN Ratio(dot(ap, ap), 1)
        ELSE IF dot(ap, ab) >= dot(ab, ab) THEN Ratio(dot(bp, bp), 1)
        ELSE Ratio(dot(ap, ap) * dot(ab, ab) - dot(ap, ab) * dot(ap, ab), dot(ab, ab))

\* The squared distance from p to the triangle a, b, c.
TriangleSquaredDistance(a, b, c, p) ==
    SquaredDistance(
        triangle_project_point_with_location(a, b, c, <<0, 0, 0>>, p).proj.point, p)

\* The vertices of the six edges and of the four faces, then the opposite vertex.
EdgeEnds == <<<<1, 2>>, <<1, 3>>, <<1, 4>>, <<2, 3>>, <<2, 4>>, <<3, 4>>>>
FaceCorners == <<<<1, 2, 3, 4>>, <<1, 2, 4, 3>>, <<1, 3, 4, 2>>, <<2, 3, 4, 1>>>>

\* p is in the tetrahedron t, its boundary included.
InTetrahedron(t, p) ==
    \A f \in 1..4 :
        LET x == t[FaceCorners[f][1]]
            n == cross3(Sub(t[FaceCorners[f][2]], x), Sub(t[FaceCorners[f][3]], x))
        IN  dot(n, Sub(t[FaceCorners[f][4]], x)) * dot(n, Sub(p, x)) >= 0

FaceSquaredDistance(t, f, p) ==
    TriangleSquaredDistance(t[FaceCorners[f][1]], t[FaceCorners[f][2]],
                            t[FaceCorners[f][3]], p)

\* The squared distance from p to the tetrahedron t.
TetrahedronSquaredDistance(t, p) ==
    IF InTetrahedron(t, p)
    THEN Ratio(0, 1)
    ELSE LET f == CHOOSE f \in 1..4 : \A g \in 1..4 :
                      ~RatioLess(FaceSquaredDistance(t, g, p), FaceSquaredDistance(t, f, p))
         IN  FaceSquaredDistance(t, f, p)

\* The locations of the region p lies in: the vertex closest to p if a vertex
\* is the closest point of t, else the edge if the closest point is on an
\* edge, else the face; the inside for a point of the tetrahedron.
RegionsOf(t, p) ==
    LET dist == TetrahedronSquaredDistance(t, p)
        vertices == {i \in 0..3 : Ratio(dot(Sub(p, t[i + 1]), Sub(p, t[i + 1])), 1) = dist}
        edges == {i \in 0..5 :
                     SegmentSquaredDistance(t[EdgeEnds[i + 1][1]], t[EdgeEnds[i + 1][2]], p)
                         = dist}
        faces == {i \in 0..3 : FaceSquaredDistance(t, i + 1, p) = dist}
    IN  (IF InTetrahedron(t, p) THEN {OnSolid} ELSE {})
        \cup (IF vertices # {} THEN {OnVertex(i) : i \in vertices}
              ELSE IF edges # {} THEN {OnEdge(i) : i \in edges}
              ELSE {OnFace(i) : i \in faces})

\* Two squared distances differ by at most 1e-6.
WithinTolerance(r1, r2) ==
    LET diff == Abs(r1.num * r2.den - r2.num * r1.den)
    IN  diff = 0 \/ diff <= (r1.den * r2.den) \div 1000000

\* The location returned is the region the point lies in.
LocationIsRegion ==
    projection.result.loc
        \in RegionsOf(projection.t, inverse_transform_point(projection.m, projection.pt))

\* The squared distance of the projection matches that of the brute-force one.
DistancesMatch ==
    WithinTolerance(SquaredDistance(projection.result.proj.point, projection.pt),
                    SquaredDistance(projection.reference.proj.point, projection.pt))

\* C16 as claimed: for every tetrahedron and query point,
\* project_point_with_location returns the location of the region the point
\* lies in, and the squared distance from the point to its projection is
\* within 1e-6 of that of project_point_with_location2.
ProjectionMatchesBruteForce ==
    projection.stage = "projected" => (LocationIsRegion /\ DistancesMatch)

\* The same for a tetrahedron placed by the identity.
UnmovedProjectionMatchesBruteForce ==
    (projection.stage = "projected" /\ projection.m = <<0, 0, 0>>)
        => (LocationIsRegion /\ DistancesMatch)

\* For every placement, the location returned is the region of the point.
ProjectionLocationIsRegion ==
    projection.stage = "projected" => LocationIsRegion

\* ------------------------------------------------------------- the broad phase's pairs
\* The pairs of distinct proxies of the tree whose loose bounding volumes
\* intersect and that the filter f accepts.
OverlappingPairs(f) ==
    {p \in ProxyPairs :
        /\ p[1] \in Live(proxies) /\ p[2] \in Live(proxies)
        /\ intersects(proxies[p[1]].loose, proxies[p[2]].loose)
        /\ filter(f, p[1], p[2])}

\* The proxies of ids are in the tree where the example created them, the
\* others are free, and nothing is pending.
ExampleBalls(ids) ==
    /\ pending = {}
    /\ \A id \in ProxyIds :
           proxies[id] = IF id \in ids
                         THEN Proxy(loosened(CreatedVolume(id), Looseness))
                         ELSE NoProxy

\* The four balls give 6 interferences, the last two of them give 1.
ExampleCounts ==
    /\ ExampleBalls(ProxyIds) => num_interferences = 6
    /\ ExampleBalls({2, 3}) => num_interferences = 1

\* C14 as claimed: after an update, num_interferences() is the number of
\* unordered pairs of distinct live proxies whose loose bounding volumes
\* intersect and that the filter of the update accepts; the four balls of the
\* example give 6, and 1 once proxies 0 and 1 are removed.
InterferencesAreOverlaps ==
    [][\A f \in Filters :
           BroadPhaseUpdate(f) =>
               /\ num_interferences' = Cardinality(OverlappingPairs(f)')
               /\ (f = "distinct" => ExampleCounts')]_vars

\* C14: when every update so far was given the same filter,
\* num_interferences() is the number of unordered pairs of distinct live
\* proxies whose loose bounding volumes intersect and that this filter
\* accepts; under the self-exclusion filter the four balls of the example
\* give 6, and 1 once proxies 0 and 1 are removed.
InterferencesAreOverlapsOfOneFilter ==
    /\ \A f \in Filters :
           filters = {f} => num_interferences = Cardinality(OverlappingPairs(f))
    /\ filters = {"distinct"} => ExampleCounts

\* C14, reached: the four balls were created and updated, proxies 0 and 1
\* were removed, and the update that followed left one interference.
TwoBallsLeftReached ==
    /\ filters = {"distinct"}
    /\ ExampleBalls({2, 3})
    /\ num_interferences = 1
    /\ reports = <<>>

\* The reports of an update that takes the current set from cur to new: one
\* started report per pair of new \ cur, one stopped report per pair of
\* cur \ new, no other, and every started report before every stopped one.
ReportsAreDeltas(cur, new, log) ==
    /\ \A p \in new \ cur :
           Cardinality({i \in DOMAIN log :
                           <<log[i].a, log[i].b>> = p /\ log[i].started}) = 1
    /\ \A p \in cur \ new :
           Cardinality({i \in DOMAIN log :
                           <<log[i].a, log[i].b>> = p /\ ~log[i].started}) = 1
    /\ Len(log) = Cardinality(new \ cur) + Cardinality(cur \ new)
    /\ \A i \in DOMAIN log, j \in DOMAIN log :
           (log[i].started /\ ~log[j].started) => i < j

\* C15: one update invokes on_pair_event once with started = true for each
\* pair of new \ current, once with started = false for each pair of
\* current \ new, for no other pair, and makes every started report before
\* every stopped one.
UpdateReportsDeltas ==
    [][\A f \in Filters :
           ReportsAreDeltas(current, current', reports') \/ ~BroadPhaseUpdate(f)]_vars

\* C15, reached: an update reported a started pair and a stopped pair.
StartedAndStoppedReported ==
    /\ \E i \in DOMAIN reports : reports[i].started
    /\ \E i \in DOMAIN reports : ~reports[i].started
    /\ \A i \in DOMAIN reports :
           reports[i].started => <<reports[i].a, reports[i].b>> \in current

\* ------------------------------------------------------------- the world's updates
NoEvents == contact_events = <<>> /\ proximity_events = <<>>

EntryKeys == DOMAIN contact_generators \cup DOMAIN proximity_detectors

\* C12: no narrow-phase entry, contact or proximity, is keyed by a pair that
\* contains a removed object, and no update fails; after remove, update,
\* update, the queues the second update leaves are empty.
RemovedObjectHasNoEntry ==
    /\ \A key \in EntryKeys : ~IndexFails(objects, key)
    /\ ~panicked
    /\ (trip.op = "remove" /\ trip.stage = 3) => NoEvents

\* C12, reached: the three objects were added close to one another, object 3
\* was removed and the world updated twice; the pair (1, 2) is still in
\* contact.
RemovedAndUpdatedTwice ==
    /\ trip = [op |-> "remove", h |-> 3, stage |-> 3]
    /\ objects[3] = NoObject
    /\ positions[1] = AddedPosition(1) /\ positions[2] = AddedPosition(2)
    /\ <<1, 2>> \in DOMAIN contact_generators
    /\ contact_generators[<<1, 2>>] = 1

\* C13: after set_position(h, p), update, set_position(h, p), update, with
\* no other call in between, the queues the second update leaves are empty.
SamePositionEmitsNothing ==
    (trip.op = "set_position" /\ trip.stage = 4) => NoEvents

\* C13, reached: object 1 was put twice where it touches object 2, with an
\* update after each; the pair (1, 2) was recomputed and is in contact.
SamePositionTwiceReached ==
    /\ trip = [op |-> "set_position", h |-> 1, stage |-> 4]
    /\ <<1, 2>> \in DOMAIN contact_generators
    /\ contact_generators[<<1, 2>>] = 1
    /\ positions[1] = AddedPosition(3)
    /\ NoEvents

====
